---------------------------- MODULE Spec2Model ----------------------------
(***************************************************************************)
(* A model of ares.py: the IČO validation pipeline (AresApiClient          *)
(* .validate_ico and its four tests), the lookup in the ARES register      *)
(* (get_subject_by_ico), the formal description built from the record      *)
(* (get_subject_formal_description) and the interactive loop               *)
(* (AresApiClientManager.interact).                                        *)
(*                                                                         *)
(* Python values are pairs <<type, value>>.  A str is the sequence of its  *)
(* Unicode code points, so that len(), isdigit(), lower(), concatenation   *)
(* and the removal of whitespace are computed character by character.      *)
(***************************************************************************)
EXTENDS Integers, Sequences, FiniteSets, TLC

VARIABLES
    pc,          \* where the program is: "validate", "idle", "loop", "exited", "crashed", "returned"
    arg,         \* the argument of the current (last) call, or the line read by input()
    call,        \* what the last call did: its name, return value, exception, requests sent
    user_input,  \* the local variable user_input of interact()
    received,    \* what requests.get() gave the last call (NoResponse: nothing was requested)
    requests     \* the URLs requested from the register so far, in order

vars == <<pc, arg, call, user_input, received, requests>>

----------------------------------------------------------------------------
(* Bounds of the model *)

\* the longest string the validation is tried on (ICO_LENGTH + 1 at least)
MaxLen == 9
\* the integers -MaxInt .. MaxInt are tried as arguments
MaxInt == 12
\* the number of requests a run may send before the model stops calling
MaxRequests == 2

----------------------------------------------------------------------------
(* Python values *)

None == <<"NoneType", 0>>
StrVal(s) == <<"str", s>>
IntVal(n) == <<"int", n>>
BoolVal(b) == <<"bool", b>>
DictVal(d) == <<"dict", d>>
TypeOf(v) == v[1]
ValOf(v) == v[2]

\* Truthy, had validate_ico tested `if ico is None`
Truthy_IsNotNone(v) == v # None

\* the truth value Python gives a value in `if not ico` / `if data` / `while user_input`
Truthy(v) ==
    CASE TypeOf(v) = "NoneType" -> FALSE
      [] TypeOf(v) = "str" -> Len(ValOf(v)) > 0
      [] TypeOf(v) = "int" -> ValOf(v) # 0
      [] TypeOf(v) = "bool" -> ValOf(v)
      [] TypeOf(v) = "dict" -> DOMAIN ValOf(v) # {}

\* the decimal digits of n >= 0, as code points
RECURSIVE Digits(_)
Digits(n) == IF n < 10 THEN <<48 + n>> ELSE Digits(n \div 10) \o <<48 + (n % 10)>>

\* str(v): a str is itself, an int is its decimal representation, None is "None"
PyStr(v) ==
    CASE TypeOf(v) = "str" -> ValOf(v)
      [] TypeOf(v) = "int" ->
            IF ValOf(v) < 0 THEN <<45>> \o Digits(-ValOf(v)) ELSE Digits(ValOf(v))
      [] TypeOf(v) = "NoneType" -> <<78, 111, 110, 101>>

\* c lies in one of the ranges <<first, last>> of R
InRanges(c, R) == \E r \in R : r[1] <= c /\ c <= r[2]

\* the code points c for which chr(c).isdigit() is true (Unicode 14.0: the
\* decimal digits of every script, superscripts, subscripts, circled and
\* parenthesized digits, ...), as ranges <<first, last>>
DigitRanges ==
    { <<48, 57>>, <<178, 179>>, <<185, 185>>, <<1632, 1641>>, <<1776, 1785>>,
      <<1984, 1993>>, <<2406, 2415>>, <<2534, 2543>>, <<2662, 2671>>,
      <<2790, 2799>>, <<2918, 2927>>, <<3046, 3055>>, <<3174, 3183>>,
      <<3302, 3311>>, <<3430, 3439>>, <<3558, 3567>>, <<3664, 3673>>,
      <<3792, 3801>>, <<3872, 3881>>, <<4160, 4169>>, <<4240, 4249>>,
      <<4969, 4977>>, <<6112, 6121>>, <<6160, 6169>>, <<6470, 6479>>,
      <<6608, 6618>>, <<6784, 6793>>, <<6800, 6809>>, <<6992, 7001>>,
      <<7088, 7097>>, <<7232, 7241>>, <<7248, 7257>>, <<8304, 8304>>,
      <<8308, 8313>>, <<8320, 8329>>, <<9312, 9320>>, <<9332, 9340>>,
      <<9352, 9360>>, <<9450, 9450>>, <<9461, 9469>>, <<9471, 9471>>,
      <<10102, 10110>>, <<10112, 10120>>, <<10122, 10130>>, <<42528, 42537>>,
      <<43216, 43225>>, <<43264, 43273>>, <<43472, 43481>>, <<43504, 43513>>,
      <<43600, 43609>>, <<44016, 44025>>, <<65296, 65305>>, <<66720, 66729>>,
      <<68160, 68163>>, <<68912, 68921>>, <<69216, 69224>>, <<69714, 69722>>,
      <<69734, 69743>>, <<69872, 69881>>, <<69942, 69951>>, <<70096, 70105>>,
      <<70384, 70393>>, <<70736, 70745>>, <<70864, 70873>>, <<71248, 71257>>,
      <<71360, 71369>>, <<71472, 71481>>, <<71904, 71913>>, <<72016, 72025>>,
      <<72784, 72793>>, <<73040, 73049>>, <<73120, 73129>>, <<92768, 92777>>,
      <<92864, 92873>>, <<93008, 93017>>, <<120782, 120831>>,
      <<123200, 123209>>, <<123632, 123641>>, <<125264, 125273>>,
      <<127232, 127242>>, <<130032, 130041>> }

IsDigitChar(c) == InRanges(c, DigitRanges)

\* str.isdigit(): at least one character, and every character a digit
isdigit(s) == Len(s) > 0 /\ \A i \in 1..Len(s) : IsDigitChar(s[i])

\* n * "0"; a count that is not positive gives the empty string
Zeros(n) == [i \in 1..n |-> 48]

----------------------------------------------------------------------------
(* AresApiClient: the validation of an IČO *)

ICO_LENGTH == 8

\* "https://ares.gov.cz/ekonomicke-subjekty-v-be/rest/ekonomicke-subjekty/"
ARES_REQUEST_URL ==
    <<104, 116, 116, 112, 115, 58, 47, 47, 97, 114, 101, 115, 46, 103, 111,
      118, 46, 99, 122, 47, 101, 107, 111, 110, 111, 109, 105, 99, 107, 101,
      45, 115, 117, 98, 106, 101, 107, 116, 121, 45, 118, 45, 98, 101, 47,
      114, 101, 115, 116, 47, 101, 107, 111, 110, 111, 109, 105, 99, 107,
      101, 45, 115, 117, 98, 106, 101, 107, 116, 121, 47>>

\* str(ico); str() raises no TypeError on a str, an int or None
_force_string(ico) == StrVal(PyStr(ico))

_check_if_is_digit(ico) == IF isdigit(ValOf(ico)) THEN ico ELSE None

\* _check_exceeding_allowed_length, had it cut the text to ICO_LENGTH characters
_check_exceeding_allowed_length_truncates(ico) ==
    IF Len(ValOf(ico)) <= ICO_LENGTH THEN ico
    ELSE StrVal(SubSeq(ValOf(ico), 1, ICO_LENGTH))

_check_exceeding_allowed_length(ico) ==
    IF Len(ValOf(ico)) <= ICO_LENGTH THEN ico ELSE None

\* _force_full_length, had it written ico + length_insufficient * "0"
_force_full_length_appends(ico) ==
    LET length_insufficient == ICO_LENGTH - Len(ValOf(ico))
    IN  IF length_insufficient # 0
        THEN StrVal(ValOf(ico) \o Zeros(length_insufficient))
        ELSE ico

_force_full_length(ico) ==
    LET length_insufficient == ICO_LENGTH - Len(ValOf(ico))
    IN  IF length_insufficient # 0
        THEN StrVal(Zeros(length_insufficient) \o ValOf(ico))
        ELSE ico

\* the list `tests` of validate_ico, by position
NumTests == 4
ApplyTest(k, ico) ==
    CASE k = 1 -> _force_string(ico)
      [] k = 2 -> _check_if_is_digit(ico)
      [] k = 3 -> _check_exceeding_allowed_length(ico)
      [] k = 4 -> _force_full_length(ico)

\* the loop of validate_ico from test k on: the value returned, and the
\* position of the test whose result was falsy (0 when every test passed)
RECURSIVE RunTests(_, _)
RunTests(ico, k) ==
    IF k > NumTests
    THEN [ico |-> ico, failed |-> 0]
    ELSE LET tested == ApplyTest(k, ico)
         IN  IF ~Truthy(tested)
             THEN [ico |-> None, failed |-> k]
             ELSE RunTests(tested, k + 1)

validate_ico(ico) == RunTests(ico, 1).ico

\* the test at which validate_ico gave up on ico (0: none)
FailedTest(ico) == RunTests(ico, 1).failed

----------------------------------------------------------------------------
(* Inputs of the validation *)

\* every string of at most n characters of A
Strings(A, n) == UNION {[1..k -> A] : k \in 0..n}

\* '0', '7' and 'a'
Alphabet == {48, 55, 97}
\* '7' and the Arabic-Indic digit three
DigitAlphabet == {55, 1635}

\* inputs with digits outside ASCII, signs, points, whitespace and letters
\* with diacritics, and the examples "70890021", "12345", "123456789"
SpecialStrings ==
    { <<55, 48, 56, 57, 48, 48, 50, 49>>,              \* "70890021"
      <<49, 50, 51, 52, 53>>,                          \* "12345"
      <<49, 50, 51, 52, 53, 54, 55, 56, 57>>,          \* "123456789"
      <<107, 117, 345, 101, 99, 237>>,                 \* "kuřecí"
      <<45, 53>>,                                      \* "-5"
      <<49, 46, 53>>,                                  \* "1.5"
      <<49, 32, 50>>,                                  \* "1 2"
      <<1635>>,                                        \* "٣" (Arabic-Indic three)
      <<1633, 1634, 1635>>,                            \* "١٢٣"
      <<178>>,                                         \* "²" (superscript two)
      <<55, 178>>,                                     \* "7²"
      <<2537>>,                                        \* "৩" (Bengali three)
      <<9312, 8308>>,                                  \* "①⁴" (circled one, superscript four)
      <<3664, 8320>>,                                  \* "๐₀" (Thai zero, subscript zero)
      <<8544>>,                                        \* "Ⅰ" (Roman numeral one: no digit)
      <<1635, 1635, 1635, 1635, 1635, 1635, 1635, 1635, 1635>>,  \* nine "٣"
      <<49, 50, 51, 52, 53, 54, 55, 97, 57>> }         \* "1234567a9"

SpecialInts == {12345, 70890021, 123456789, -12345}

ValidateInputs ==
    {StrVal(s) : s \in Strings(Alphabet, MaxLen) \cup Strings(DigitAlphabet, MaxLen)
                        \cup SpecialStrings}
        \cup {IntVal(n) : n \in (-MaxInt..MaxInt) \cup SpecialInts}
        \cup {None}

NoCall ==
    [op |-> "", ret |-> None, failed |-> 0, raised |-> "", sent |-> 0,
     printed |-> ""]

\* a body that response.json() cannot decode
NotJson == <<"invalid", 0>>

NoResponse == [raises |-> "", status_code |-> 0, body |-> NotJson]

\* validate_ico(arg) is called and returns
ValidateIco ==
    /\ pc = "validate"
    /\ pc' = "returned"
    /\ call' = [NoCall EXCEPT !.op = "validate_ico",
                              !.ret = validate_ico(arg),
                              !.failed = FailedTest(arg)]
    /\ UNCHANGED <<arg, user_input, received, requests>>

InitValidate ==
    /\ pc = "validate"
    /\ arg \in ValidateInputs
    /\ call = NoCall
    /\ user_input = None
    /\ received = NoResponse
    /\ requests = <<>>

NextValidate == ValidateIco

SpecValidate == InitValidate /\ [][NextValidate]_vars


----------------------------------------------------------------------------
(* The ARES register, as requests.get() shows it *)

\* "Acme s.r.o."
Names == {<<65, 99, 109, 101, 32, 115, 46, 114, 46, 111, 46>>}
\* "00012345": the identifier as the register echoes it
EchoedIcos == {<<48, 48, 48, 49, 50, 51, 52, 53>>}
\* "Praha 1"
Addresses == {<<80, 114, 97, 104, 97, 32, 49>>}

\* a value that may be absent: the empty sequence, or <<x>>
Optional(S) == {<<>>} \cup {<<x>> : x \in S}

\* the value of `sidlo`: a dictionary with or without textovaAdresa
Sidlos == {[k \in {} |-> <<>>]} \cup {[textovaAdresa |-> a] : a \in Addresses}

\* the dictionary holding the keys whose value is present
MakeRecord(n, i, s) ==
    [k \in (IF n = <<>> THEN {} ELSE {"obchodniJmeno"})
            \cup (IF i = <<>> THEN {} ELSE {"ico"})
            \cup (IF s = <<>> THEN {} ELSE {"sidlo"})
        |-> CASE k = "obchodniJmeno" -> n[1]
              [] k = "ico" -> i[1]
              [] k = "sidlo" -> s[1]]

\* the JSON objects the register may answer with: every combination of the
\* fields present and absent, the empty object included
Records ==
    {MakeRecord(n, i, s) :
        n \in Optional(Names), i \in Optional(EchoedIcos), s \in Optional(Sidlos)}

FullRecord ==
    [obchodniJmeno |-> <<65, 99, 109, 101, 32, 115, 46, 114, 46, 111, 46>>,
     ico |-> <<48, 48, 48, 49, 50, 51, 52, 53>>,
     sidlo |-> [textovaAdresa |-> <<80, 114, 97, 104, 97, 32, 49>>]]

Bodies == {DictVal(d) : d \in Records} \cup {NotJson}

StatusCodes == {200, 404, 500}

\* what requests.get() gives: a response with a status code and a body, or a
\* ConnectionError when the register cannot be reached.  A response whose
\* status is not 200 carries a full record or an undecodable body.
Responses ==
    {r \in [raises : {""}, status_code : StatusCodes, body : Bodies] :
        r.status_code = 200 \/ r.body \in {DictVal(FullRecord), NotJson}}
    \cup {[raises |-> "ConnectionError", status_code |-> 0, body |-> NotJson]}

----------------------------------------------------------------------------
(* AresApiClient: the lookup and the formal description *)

\* what a call did: the value returned, the exception raised ("" if none)
\* and the URLs requested
Outcome(ret, raised, sent) == [ret |-> ret, raised |-> raised, sent |-> sent]

\* get_subject_by_ico, had it gone on with str(ico) after a failed validation
get_subject_by_ico_unvalidated(ico, response) ==
    LET valid == validate_ico(ico)
        url == ARES_REQUEST_URL \o (IF Truthy(valid) THEN ValOf(valid) ELSE PyStr(ico))
    IN  IF response.raises # ""
        THEN Outcome(None, response.raises, <<url>>)
        ELSE IF response.status_code # 200
        THEN Outcome(None, "", <<url>>)
        ELSE IF response.body = NotJson
        THEN Outcome(None, "JSONDecodeError", <<url>>)
        ELSE Outcome(response.body, "", <<url>>)

\* get_subject_by_ico, had it asked once more after a status other than 200
get_subject_by_ico_retries(ico, response) ==
    LET valid == validate_ico(ico)
        url == ARES_REQUEST_URL \o ValOf(valid)
    IN  IF ~Truthy(valid)
        THEN Outcome(None, "", <<>>)
        ELSE IF response.raises # ""
        THEN Outcome(None, response.raises, <<url>>)
        ELSE IF response.status_code # 200
        THEN Outcome(None, "", <<url, url>>)
        ELSE IF response.body = NotJson
        THEN Outcome(None, "JSONDecodeError", <<url>>)
        ELSE Outcome(response.body, "", <<url>>)

get_subject_by_ico(ico, response) ==
    LET valid == validate_ico(ico)
        url == ARES_REQUEST_URL \o ValOf(valid)
    IN  IF ~Truthy(valid)
        THEN Outcome(None, "", <<>>)
        ELSE IF response.raises # ""
        THEN Outcome(None, response.raises, <<url>>)
        ELSE IF response.status_code # 200
        THEN Outcome(None, "", <<url>>)
        ELSE IF response.body = NotJson
        THEN Outcome(None, "JSONDecodeError", <<url>>)
        ELSE Outcome(response.body, "", <<url>>)

\* ", IČO "
ICO_PHRASE == <<44, 32, 73, 268, 79, 32>>
\* ", sídlem "
SIDLEM_PHRASE == <<44, 32, 115, 237, 100, 108, 101, 109, 32>>

\* data[key] raises KeyError when the key is absent
HasKey(d, key) == key \in DOMAIN d

\* get_subject_formal_description, had it written the validated argument
\* in place of data["ico"]
get_subject_formal_description_own_ico(ico, response) ==
    LET found == get_subject_by_ico(ico, response)
        data == ValOf(found.ret)
    IN  IF found.raised # ""
        THEN found
        ELSE IF ~Truthy(found.ret)
        THEN Outcome(None, "", found.sent)
        ELSE IF ~HasKey(data, "obchodniJmeno") \/ ~HasKey(data, "ico")
                \/ ~HasKey(data, "sidlo")
        THEN Outcome(None, "KeyError", found.sent)
        ELSE IF ~HasKey(data["sidlo"], "textovaAdresa")
        THEN Outcome(None, "KeyError", found.sent)
        ELSE Outcome(StrVal(data["obchodniJmeno"] \o ICO_PHRASE
                            \o ValOf(validate_ico(ico))
                            \o SIDLEM_PHRASE \o data["sidlo"]["textovaAdresa"]),
                     "", found.sent)

get_subject_formal_description(ico, response) ==
    LET found == get_subject_by_ico(ico, response)
        data == ValOf(found.ret)
    IN  IF found.raised # ""
        THEN found
        ELSE IF ~Truthy(found.ret)
        THEN Outcome(None, "", found.sent)
        ELSE IF ~HasKey(data, "obchodniJmeno") \/ ~HasKey(data, "ico")
                \/ ~HasKey(data, "sidlo")
        THEN Outcome(None, "KeyError", found.sent)
        ELSE IF ~HasKey(data["sidlo"], "textovaAdresa")
        THEN Outcome(None, "KeyError", found.sent)
        ELSE Outcome(StrVal(data["obchodniJmeno"] \o ICO_PHRASE \o data["ico"]
                            \o SIDLEM_PHRASE \o data["sidlo"]["textovaAdresa"]),
                     "", found.sent)

----------------------------------------------------------------------------
(* AresApiClientManager.interact *)

\* string.whitespace: space, \t, \n, \r, \x0b, \x0c
whitespace == {32, 9, 10, 13, 11, 12}

RemoveWhitespace(s) == SelectSeq(s, LAMBDA char : char \notin whitespace)

\* the code points whose lower case is one other character, as
\* <<first, last, step, offset>>: first, first + step, ... last lower to
\* themselves + offset
LowerRanges ==
    { <<65, 90, 1, 32>>, <<192, 214, 1, 32>>, <<216, 222, 1, 32>>,
      <<256, 302, 2, 1>>, <<306, 310, 2, 1>>, <<313, 327, 2, 1>>,
      <<330, 374, 2, 1>>, <<376, 376, 1, -121>>, <<377, 381, 2, 1>>,
      <<385, 385, 1, 210>>, <<386, 388, 2, 1>>, <<390, 390, 1, 206>>,
      <<391, 391, 1, 1>>, <<393, 394, 1, 205>>, <<395, 395, 1, 1>>,
      <<398, 398, 1, 79>>, <<399, 399, 1, 202>>, <<400, 400, 1, 203>>,
      <<401, 401, 1, 1>>, <<403, 403, 1, 205>>, <<404, 404, 1, 207>>,
      <<406, 406, 1, 211>>, <<407, 407, 1, 209>>, <<408, 408, 1, 1>>,
      <<412, 412, 1, 211>>, <<413, 413, 1, 213>>, <<415, 415, 1, 214>>,
      <<416, 420, 2, 1>>, <<422, 422, 1, 218>>, <<423, 423, 1, 1>>,
      <<425, 425, 1, 218>>, <<428, 428, 1, 1>>, <<430, 430, 1, 218>>,
      <<431, 431, 1, 1>>, <<433, 434, 1, 217>>, <<435, 437, 2, 1>>,
      <<439, 439, 1, 219>>, <<440, 440, 1, 1>>, <<444, 444, 1, 1>>,
      <<452, 452, 1, 2>>, <<453, 453, 1, 1>>, <<455, 455, 1, 2>>,
      <<456, 456, 1, 1>>, <<458, 458, 1, 2>>, <<459, 475, 2, 1>>,
      <<478, 494, 2, 1>>, <<497, 497, 1, 2>>, <<498, 500, 2, 1>>,
      <<502, 502, 1, -97>>, <<503, 503, 1, -56>>, <<504, 542, 2, 1>>,
      <<544, 544, 1, -130>>, <<546, 562, 2, 1>>, <<570, 570, 1, 10795>>,
      <<571, 571, 1, 1>>, <<573, 573, 1, -163>>, <<574, 574, 1, 10792>>,
      <<577, 577, 1, 1>>, <<579, 579, 1, -195>>, <<580, 580, 1, 69>>,
      <<581, 581, 1, 71>>, <<582, 590, 2, 1>>, <<880, 882, 2, 1>>,
      <<886, 886, 1, 1>>, <<895, 895, 1, 116>>, <<902, 902, 1, 38>>,
      <<904, 906, 1, 37>>, <<908, 908, 1, 64>>, <<910, 911, 1, 63>>,
      <<913, 929, 1, 32>>, <<931, 939, 1, 32>>, <<975, 975, 1, 8>>,
      <<984, 1006, 2, 1>>, <<1012, 1012, 1, -60>>, <<1015, 1015, 1, 1>>,
      <<1017, 1017, 1, -7>>, <<1018, 1018, 1, 1>>, <<1021, 1023, 1, -130>>,
      <<1024, 1039, 1, 80>>, <<1040, 1071, 1, 32>>, <<1120, 1152, 2, 1>>,
      <<1162, 1214, 2, 1>>, <<1216, 1216, 1, 15>>, <<1217, 1229, 2, 1>>,
      <<1232, 1326, 2, 1>>, <<1329, 1366, 1, 48>>, <<4256, 4293, 1, 7264>>,
      <<4295, 4295, 1, 7264>>, <<4301, 4301, 1, 7264>>,
      <<5024, 5103, 1, 38864>>, <<5104, 5109, 1, 8>>,
      <<7312, 7354, 1, -3008>>, <<7357, 7359, 1, -3008>>,
      <<7680, 7828, 2, 1>>, <<7838, 7838, 1, -7615>>, <<7840, 7934, 2, 1>>,
      <<7944, 7951, 1, -8>>, <<7960, 7965, 1, -8>>, <<7976, 7983, 1, -8>>,
      <<7992, 7999, 1, -8>>, <<8008, 8013, 1, -8>>, <<8025, 8031, 2, -8>>,
      <<8040, 8047, 1, -8>>, <<8072, 8079, 1, -8>>, <<8088, 8095, 1, -8>>,
      <<8104, 8111, 1, -8>>, <<8120, 8121, 1, -8>>, <<8122, 8123, 1, -74>>,
      <<8124, 8124, 1, -9>>, <<8136, 8139, 1, -86>>, <<8140, 8140, 1, -9>>,
      <<8152, 8153, 1, -8>>, <<8154, 8155, 1, -100>>, <<8168, 8169, 1, -8>>,
      <<8170, 8171, 1, -112>>, <<8172, 8172, 1, -7>>,
      <<8184, 8185, 1, -128>>, <<8186, 8187, 1, -126>>,
      <<8188, 8188, 1, -9>>, <<8486, 8486, 1, -7517>>,
      <<8490, 8490, 1, -8383>>, <<8491, 8491, 1, -8262>>,
      <<8498, 8498, 1, 28>>, <<8544, 8559, 1, 16>>, <<8579, 8579, 1, 1>>,
      <<9398, 9423, 1, 26>>, <<11264, 11311, 1, 48>>, <<11360, 11360, 1, 1>>,
      <<11362, 11362, 1, -10743>>, <<11363, 11363, 1, -3814>>,
      <<11364, 11364, 1, -10727>>, <<11367, 11371, 2, 1>>,
      <<11373, 11373, 1, -10780>>, <<11374, 11374, 1, -10749>>,
      <<11375, 11375, 1, -10783>>, <<11376, 11376, 1, -10782>>,
      <<11378, 11378, 1, 1>>, <<11381, 11381, 1, 1>>,
      <<11390, 11391, 1, -10815>>, <<11392, 11490, 2, 1>>,
      <<11499, 11501, 2, 1>>, <<11506, 11506, 1, 1>>, <<42560, 42604, 2, 1>>,
      <<42624, 42650, 2, 1>>, <<42786, 42798, 2, 1>>, <<42802, 42862, 2, 1>>,
      <<42873, 42875, 2, 1>>, <<42877, 42877, 1, -35332>>,
      <<42878, 42886, 2, 1>>, <<42891, 42891, 1, 1>>,
      <<42893, 42893, 1, -42280>>, <<42896, 42898, 2, 1>>,
      <<42902, 42920, 2, 1>>, <<42922, 42922, 1, -42308>>,
      <<42923, 42923, 1, -42319>>, <<42924, 42924, 1, -42315>>,
      <<42925, 42925, 1, -42305>>, <<42926, 42926, 1, -42308>>,
      <<42928, 42928, 1, -42258>>, <<42929, 42929, 1, -42282>>,
      <<42930, 42930, 1, -42261>>, <<42931, 42931, 1, 928>>,
      <<42932, 42946, 2, 1>>, <<42948, 42948, 1, -48>>,
      <<42949, 42949, 1, -42307>>, <<42950, 42950, 1, -35384>>,
      <<42951, 42953, 2, 1>>, <<42960, 42960, 1, 1>>, <<42966, 42968, 2, 1>>,
      <<42997, 42997, 1, 1>>, <<65313, 65338, 1, 32>>,
      <<66560, 66599, 1, 40>>, <<66736, 66771, 1, 40>>,
      <<66928, 66938, 1, 39>>, <<66940, 66954, 1, 39>>,
      <<66956, 66962, 1, 39>>, <<66964, 66965, 1, 39>>,
      <<68736, 68786, 1, 64>>, <<71840, 71871, 1, 32>>,
      <<93760, 93791, 1, 32>>, <<125184, 125217, 1, 34>> }

\* the case-ignorable code points (skipped around a capital sigma)
CaseIgnorableRanges ==
    { <<39, 39>>, <<46, 46>>, <<58, 58>>, <<94, 94>>, <<96, 96>>,
      <<168, 168>>, <<173, 173>>, <<175, 175>>, <<180, 180>>, <<183, 184>>,
      <<688, 879>>, <<884, 885>>, <<890, 890>>, <<900, 901>>, <<903, 903>>,
      <<1155, 1161>>, <<1369, 1369>>, <<1375, 1375>>, <<1425, 1469>>,
      <<1471, 1471>>, <<1473, 1474>>, <<1476, 1477>>, <<1479, 1479>>,
      <<1524, 1524>>, <<1536, 1541>>, <<1552, 1562>>, <<1564, 1564>>,
      <<1600, 1600>>, <<1611, 1631>>, <<1648, 1648>>, <<1750, 1757>>,
      <<1759, 1768>>, <<1770, 1773>>, <<1807, 1807>>, <<1809, 1809>>,
      <<1840, 1866>>, <<1958, 1968>>, <<2027, 2037>>, <<2042, 2042>>,
      <<2045, 2045>>, <<2070, 2093>>, <<2137, 2139>>, <<2184, 2184>>,
      <<2192, 2193>>, <<2200, 2207>>, <<2249, 2306>>, <<2362, 2362>>,
      <<2364, 2364>>, <<2369, 2376>>, <<2381, 2381>>, <<2385, 2391>>,
      <<2402, 2403>>, <<2417, 2417>>, <<2433, 2433>>, <<2492, 2492>>,
      <<2497, 2500>>, <<2509, 2509>>, <<2530, 2531>>, <<2558, 2558>>,
      <<2561, 2562>>, <<2620, 2620>>, <<2625, 2626>>, <<2631, 2632>>,
      <<2635, 2637>>, <<2641, 2641>>, <<2672, 2673>>, <<2677, 2677>>,
      <<2689, 2690>>, <<2748, 2748>>, <<2753, 2757>>, <<2759, 2760>>,
      <<2765, 2765>>, <<2786, 2787>>, <<2810, 2815>>, <<2817, 2817>>,
      <<2876, 2876>>, <<2879, 2879>>, <<2881, 2884>>, <<2893, 2893>>,
      <<2901, 2902>>, <<2914, 2915>>, <<2946, 2946>>, <<3008, 3008>>,
      <<3021, 3021>>, <<3072, 3072>>, <<3076, 3076>>, <<3132, 3132>>,
      <<3134, 3136>>, <<3142, 3144>>, <<3146, 3149>>, <<3157, 3158>>,
      <<3170, 3171>>, <<3201, 3201>>, <<3260, 3260>>, <<3263, 3263>>,
      <<3270, 3270>>, <<3276, 3277>>, <<3298, 3299>>, <<3328, 3329>>,
      <<3387, 3388>>, <<3393, 3396>>, <<3405, 3405>>, <<3426, 3427>>,
      <<3457, 3457>>, <<3530, 3530>>, <<3538, 3540>>, <<3542, 3542>>,
      <<3633, 3633>>, <<3636, 3642>>, <<3654, 3662>>, <<3761, 3761>>,
      <<3764, 3772>>, <<3782, 3782>>, <<3784, 3789>>, <<3864, 3865>>,
      <<3893, 3893>>, <<3895, 3895>>, <<3897, 3897>>, <<3953, 3966>>,
      <<3968, 3972>>, <<3974, 3975>>, <<3981, 3991>>, <<3993, 4028>>,
      <<4038, 4038>>, <<4141, 4144>>, <<4146, 4151>>, <<4153, 4154>>,
      <<4157, 4158>>, <<4184, 4185>>, <<4190, 4192>>, <<4209, 4212>>,
      <<4226, 4226>>, <<4229, 4230>>, <<4237, 4237>>, <<4253, 4253>>,
      <<4348, 4348>>, <<4957, 4959>>, <<5906, 5908>>, <<5938, 5939>>,
      <<5970, 5971>>, <<6002, 6003>>, <<6068, 6069>>, <<6071, 6077>>,
      <<6086, 6086>>, <<6089, 6099>>, <<6103, 6103>>, <<6109, 6109>>,
      <<6155, 6159>>, <<6211, 6211>>, <<6277, 6278>>, <<6313, 6313>>,
      <<6432, 6434>>, <<6439, 6440>>, <<6450, 6450>>, <<6457, 6459>>,
      <<6679, 6680>>, <<6683, 6683>>, <<6742, 6742>>, <<6744, 6750>>,
      <<6752, 6752>>, <<6754, 6754>>, <<6757, 6764>>, <<6771, 6780>>,
      <<6783, 6783>>, <<6823, 6823>>, <<6832, 6862>>, <<6912, 6915>>,
      <<6964, 6964>>, <<6966, 6970>>, <<6972, 6972>>, <<6978, 6978>>,
      <<7019, 7027>>, <<7040, 7041>>, <<7074, 7077>>, <<7080, 7081>>,
      <<7083, 7085>>, <<7142, 7142>>, <<7144, 7145>>, <<7149, 7149>>,
      <<7151, 7153>>, <<7212, 7219>>, <<7222, 7223>>, <<7288, 7293>>,
      <<7376, 7378>>, <<7380, 7392>>, <<7394, 7400>>, <<7405, 7405>>,
      <<7412, 7412>>, <<7416, 7417>>, <<7468, 7530>>, <<7544, 7544>>,
      <<7579, 7679>>, <<8125, 8125>>, <<8127, 8129>>, <<8141, 8143>>,
      <<8157, 8159>>, <<8173, 8175>>, <<8189, 8190>>, <<8203, 8207>>,
      <<8216, 8217>>, <<8228, 8228>>, <<8231, 8231>>, <<8234, 8238>>,
      <<8288, 8292>>, <<8294, 8303>>, <<8305, 8305>>, <<8319, 8319>>,
      <<8336, 8348>>, <<8400, 8432>>, <<11388, 11389>>, <<11503, 11505>>,
      <<11631, 11631>>, <<11647, 11647>>, <<11744, 11775>>, <<11823, 11823>>,
      <<12293, 12293>>, <<12330, 12333>>, <<12337, 12341>>, <<12347, 12347>>,
      <<12441, 12446>>, <<12540, 12542>>, <<40981, 40981>>, <<42232, 42237>>,
      <<42508, 42508>>, <<42607, 42610>>, <<42612, 42621>>, <<42623, 42623>>,
      <<42652, 42655>>, <<42736, 42737>>, <<42752, 42785>>, <<42864, 42864>>,
      <<42888, 42890>>, <<42994, 42996>>, <<43000, 43001>>, <<43010, 43010>>,
      <<43014, 43014>>, <<43019, 43019>>, <<43045, 43046>>, <<43052, 43052>>,
      <<43204, 43205>>, <<43232, 43249>>, <<43263, 43263>>, <<43302, 43309>>,
      <<43335, 43345>>, <<43392, 43394>>, <<43443, 43443>>, <<43446, 43449>>,
      <<43452, 43453>>, <<43471, 43471>>, <<43493, 43494>>, <<43561, 43566>>,
      <<43569, 43570>>, <<43573, 43574>>, <<43587, 43587>>, <<43596, 43596>>,
      <<43632, 43632>>, <<43644, 43644>>, <<43696, 43696>>, <<43698, 43700>>,
      <<43703, 43704>>, <<43710, 43711>>, <<43713, 43713>>, <<43741, 43741>>,
      <<43756, 43757>>, <<43763, 43764>>, <<43766, 43766>>, <<43867, 43871>>,
      <<43881, 43883>>, <<44005, 44005>>, <<44008, 44008>>, <<44013, 44013>>,
      <<64286, 64286>>, <<64434, 64450>>, <<65024, 65039>>, <<65043, 65043>>,
      <<65056, 65071>>, <<65106, 65106>>, <<65109, 65109>>, <<65279, 65279>>,
      <<65287, 65287>>, <<65294, 65294>>, <<65306, 65306>>, <<65342, 65342>>,
      <<65344, 65344>>, <<65392, 65392>>, <<65438, 65439>>, <<65507, 65507>>,
      <<65529, 65531>>, <<66045, 66045>>, <<66272, 66272>>, <<66422, 66426>>,
      <<67456, 67461>>, <<67463, 67504>>, <<67506, 67514>>, <<68097, 68099>>,
      <<68101, 68102>>, <<68108, 68111>>, <<68152, 68154>>, <<68159, 68159>>,
      <<68325, 68326>>, <<68900, 68903>>, <<69291, 69292>>, <<69446, 69456>>,
      <<69506, 69509>>, <<69633, 69633>>, <<69688, 69702>>, <<69744, 69744>>,
      <<69747, 69748>>, <<69759, 69761>>, <<69811, 69814>>, <<69817, 69818>>,
      <<69821, 69821>>, <<69826, 69826>>, <<69837, 69837>>, <<69888, 69890>>,
      <<69927, 69931>>, <<69933, 69940>>, <<70003, 70003>>, <<70016, 70017>>,
      <<70070, 70078>>, <<70089, 70092>>, <<70095, 70095>>, <<70191, 70193>>,
      <<70196, 70196>>, <<70198, 70199>>, <<70206, 70206>>, <<70367, 70367>>,
      <<70371, 70378>>, <<70400, 70401>>, <<70459, 70460>>, <<70464, 70464>>,
      <<70502, 70508>>, <<70512, 70516>>, <<70712, 70719>>, <<70722, 70724>>,
      <<70726, 70726>>, <<70750, 70750>>, <<70835, 70840>>, <<70842, 70842>>,
      <<70847, 70848>>, <<70850, 70851>>, <<71090, 71093>>, <<71100, 71101>>,
      <<71103, 71104>>, <<71132, 71133>>, <<71219, 71226>>, <<71229, 71229>>,
      <<71231, 71232>>, <<71339, 71339>>, <<71341, 71341>>, <<71344, 71349>>,
      <<71351, 71351>>, <<71453, 71455>>, <<71458, 71461>>, <<71463, 71467>>,
      <<71727, 71735>>, <<71737, 71738>>, <<71995, 71996>>, <<71998, 71998>>,
      <<72003, 72003>>, <<72148, 72151>>, <<72154, 72155>>, <<72160, 72160>>,
      <<72193, 72202>>, <<72243, 72248>>, <<72251, 72254>>, <<72263, 72263>>,
      <<72273, 72278>>, <<72281, 72283>>, <<72330, 72342>>, <<72344, 72345>>,
      <<72752, 72758>>, <<72760, 72765>>, <<72767, 72767>>, <<72850, 72871>>,
      <<72874, 72880>>, <<72882, 72883>>, <<72885, 72886>>, <<73009, 73014>>,
      <<73018, 73018>>, <<73020, 73021>>, <<73023, 73029>>, <<73031, 73031>>,
      <<73104, 73105>>, <<73109, 73109>>, <<73111, 73111>>, <<73459, 73460>>,
      <<78896, 78904>>, <<92912, 92916>>, <<92976, 92982>>, <<92992, 92995>>,
      <<94031, 94031>>, <<94095, 94111>>, <<94176, 94177>>, <<94179, 94180>>,
      <<110576, 110579>>, <<110581, 110587>>, <<110589, 110590>>,
      <<113821, 113822>>, <<113824, 113827>>, <<118528, 118573>>,
      <<118576, 118598>>, <<119143, 119145>>, <<119155, 119170>>,
      <<119173, 119179>>, <<119210, 119213>>, <<119362, 119364>>,
      <<121344, 121398>>, <<121403, 121452>>, <<121461, 121461>>,
      <<121476, 121476>>, <<121499, 121503>>, <<121505, 121519>>,
      <<122880, 122886>>, <<122888, 122904>>, <<122907, 122913>>,
      <<122915, 122916>>, <<122918, 122922>>, <<123184, 123197>>,
      <<123566, 123566>>, <<123628, 123631>>, <<125136, 125142>>,
      <<125252, 125259>>, <<127995, 127999>>, <<917505, 917505>>,
      <<917536, 917631>>, <<917760, 917999>> }

\* the cased code points that are not case-ignorable
CasedRanges ==
    { <<65, 90>>, <<97, 122>>, <<170, 170>>, <<181, 181>>, <<186, 186>>,
      <<192, 214>>, <<216, 246>>, <<248, 442>>, <<444, 447>>, <<452, 659>>,
      <<661, 687>>, <<880, 883>>, <<886, 887>>, <<891, 893>>, <<895, 895>>,
      <<902, 902>>, <<904, 906>>, <<908, 908>>, <<910, 929>>, <<931, 1013>>,
      <<1015, 1153>>, <<1162, 1327>>, <<1329, 1366>>, <<1376, 1416>>,
      <<4256, 4293>>, <<4295, 4295>>, <<4301, 4301>>, <<4304, 4346>>,
      <<4349, 4351>>, <<5024, 5109>>, <<5112, 5117>>, <<7296, 7304>>,
      <<7312, 7354>>, <<7357, 7359>>, <<7424, 7467>>, <<7531, 7543>>,
      <<7545, 7578>>, <<7680, 7957>>, <<7960, 7965>>, <<7968, 8005>>,
      <<8008, 8013>>, <<8016, 8023>>, <<8025, 8025>>, <<8027, 8027>>,
      <<8029, 8029>>, <<8031, 8061>>, <<8064, 8116>>, <<8118, 8124>>,
      <<8126, 8126>>, <<8130, 8132>>, <<8134, 8140>>, <<8144, 8147>>,
      <<8150, 8155>>, <<8160, 8172>>, <<8178, 8180>>, <<8182, 8188>>,
      <<8450, 8450>>, <<8455, 8455>>, <<8458, 8467>>, <<8469, 8469>>,
      <<8473, 8477>>, <<8484, 8484>>, <<8486, 8486>>, <<8488, 8488>>,
      <<8490, 8493>>, <<8495, 8500>>, <<8505, 8505>>, <<8508, 8511>>,
      <<8517, 8521>>, <<8526, 8526>>, <<8544, 8575>>, <<8579, 8580>>,
      <<9398, 9449>>, <<11264, 11387>>, <<11390, 11492>>, <<11499, 11502>>,
      <<11506, 11507>>, <<11520, 11557>>, <<11559, 11559>>, <<11565, 11565>>,
      <<42560, 42605>>, <<42624, 42651>>, <<42786, 42863>>, <<42865, 42887>>,
      <<42891, 42894>>, <<42896, 42954>>, <<42960, 42961>>, <<42963, 42963>>,
      <<42965, 42969>>, <<42997, 42998>>, <<43002, 43002>>, <<43824, 43866>>,
      <<43872, 43880>>, <<43888, 43967>>, <<64256, 64262>>, <<64275, 64279>>,
      <<65313, 65338>>, <<65345, 65370>>, <<66560, 66639>>, <<66736, 66771>>,
      <<66776, 66811>>, <<66928, 66938>>, <<66940, 66954>>, <<66956, 66962>>,
      <<66964, 66965>>, <<66967, 66977>>, <<66979, 66993>>, <<66995, 67001>>,
      <<67003, 67004>>, <<68736, 68786>>, <<68800, 68850>>, <<71840, 71903>>,
      <<93760, 93823>>, <<119808, 119892>>, <<119894, 119964>>,
      <<119966, 119967>>, <<119970, 119970>>, <<119973, 119974>>,
      <<119977, 119980>>, <<119982, 119993>>, <<119995, 119995>>,
      <<119997, 120003>>, <<120005, 120069>>, <<120071, 120074>>,
      <<120077, 120084>>, <<120086, 120092>>, <<120094, 120121>>,
      <<120123, 120126>>, <<120128, 120132>>, <<120134, 120134>>,
      <<120138, 120144>>, <<120146, 120485>>, <<120488, 120512>>,
      <<120514, 120538>>, <<120540, 120570>>, <<120572, 120596>>,
      <<120598, 120628>>, <<120630, 120654>>, <<120656, 120686>>,
      <<120688, 120712>>, <<120714, 120744>>, <<120746, 120770>>,
      <<120772, 120779>>, <<122624, 122633>>, <<122635, 122654>>,
      <<125184, 125251>>, <<127280, 127305>>, <<127312, 127337>>,
      <<127344, 127369>> }

\* the lower case of a character that lowers to one character (itself when
\* it has no lower case); ASCII is decided without the table
LowerChar(c) ==
    IF c < 128
    THEN IF c \in 65..90 THEN c + 32 ELSE c
    ELSE IF \E r \in LowerRanges : r[1] <= c /\ c <= r[2] /\ (c - r[1]) % r[3] = 0
    THEN c + (CHOOSE r \in LowerRanges :
                    r[1] <= c /\ c <= r[2] /\ (c - r[1]) % r[3] = 0)[4]
    ELSE c

\* the full lower case of a character: U+0130 (capital I with dot above)
\* alone lowers to two characters, i and U+0307
LowerFull(c) == IF c = 304 THEN <<105, 775>> ELSE <<LowerChar(c)>>

\* the capital sigma s[i] is final: the nearest character before it that is
\* not case-ignorable is cased, and the nearest after it, if any, is not
FinalSigma(s, i) ==
    /\ \E j \in 1..(i - 1) :
            /\ ~InRanges(s[j], CaseIgnorableRanges)
            /\ \A k \in (j + 1)..(i - 1) : InRanges(s[k], CaseIgnorableRanges)
            /\ InRanges(s[j], CasedRanges)
    /\ ~\E j \in (i + 1)..Len(s) :
            /\ ~InRanges(s[j], CaseIgnorableRanges)
            /\ \A k \in (i + 1)..(j - 1) : InRanges(s[k], CaseIgnorableRanges)
            /\ InRanges(s[j], CasedRanges)

\* str.lower() from position i on: a capital sigma (U+03A3) lowers to the
\* final sigma U+03C2 or to U+03C3, every other character to LowerFull
RECURSIVE LowerFrom(_, _)
LowerFrom(s, i) ==
    IF i > Len(s) THEN <<>>
    ELSE (IF s[i] = 931
          THEN <<IF FinalSigma(s, i) THEN 962 ELSE 963>>
          ELSE LowerFull(s[i])) \o LowerFrom(s, i + 1)

lower(s) == LowerFrom(s, 1)

\* {"", "q", 0, "quit", "quit()", "exit", "exit()", "abort", "abort()"}
quit_by ==
    { StrVal(<<>>),
      StrVal(<<113>>),
      IntVal(0),
      StrVal(<<113, 117, 105, 116>>),
      StrVal(<<113, 117, 105, 116, 40, 41>>),
      StrVal(<<101, 120, 105, 116>>),
      StrVal(<<101, 120, 105, 116, 40, 41>>),
      StrVal(<<97, 98, 111, 114, 116>>),
      StrVal(<<97, 98, 111, 114, 116, 40, 41>>) }

----------------------------------------------------------------------------
(* Inputs of the client *)

\* the lines input() may return
ClientLines ==
    { <<>>,                                            \* ""
      <<32, 32, 32>>,                                  \* "   "
      <<113>>,                                         \* "q"
      <<81>>,                                          \* "Q"
      <<113, 117, 105, 116>>,                          \* "quit"
      <<81, 85, 73, 84, 40, 41>>,                      \* "QUIT()"
      <<101, 120, 105, 116>>,                          \* "exit"
      <<101, 32, 120, 32, 105, 32, 116>>,              \* "e x i t"
      <<69, 120, 105, 116, 40, 41>>,                   \* "Exit()"
      <<97, 98, 111, 114, 116>>,                       \* "abort"
      <<97, 98, 111, 114, 116, 40, 41>>,               \* "abort()"
      <<48>>,                                          \* "0"
      <<113, 117, 105, 116, 110, 111, 119>>,           \* "quitnow"
      <<49, 50, 51, 52, 53>>,                          \* "12345"
      <<49, 32, 50, 32, 51, 32, 52, 32, 53>>,          \* "1 2 3 4 5"
      <<55, 48, 56, 57, 48, 48, 50, 49>>,              \* "70890021"
      <<49, 50, 51, 52, 53, 54, 55, 56, 57>>,          \* "123456789"
      <<107, 117, 345, 101, 99, 237>>,                 \* "kuřecí"
      <<75, 85, 344, 69, 67, 205>>,                    \* "KUŘECÍ"
      <<45, 53>>,                                      \* "-5"
      <<81, 85, 304, 84>>,                             \* "QUİT" (I with dot above)
      <<268, 205, 83, 76, 79>>,                        \* "ČÍSLO"
      <<8490, 79, 931>>,                               \* "KOΣ" (Kelvin sign, capital sigma)
      <<1635>> }                                       \* "٣" (Arabic-Indic three)

\* the arguments other code may pass to the client
ClientArgs ==
    {StrVal(s) : s \in ClientLines} \cup {IntVal(0), IntVal(12345), IntVal(-5), None}

\* the responses a call may meet: none when it sends no request
ResponsesFor(ico) ==
    IF Truthy(validate_ico(ico)) THEN Responses ELSE {NoResponse}

----------------------------------------------------------------------------
(* The client: calls of the two lookups, and the interactive loop *)

Init ==
    /\ pc = "idle"
    /\ arg = None
    /\ call = NoCall
    /\ user_input = None
    /\ received = NoResponse
    /\ requests = <<>>

\* other code calls AresApiClient.get_subject_by_ico(ico)
GetSubjectByIco ==
    /\ pc = "idle"
    /\ \E ico \in ClientArgs : \E resp \in ResponsesFor(ico) :
        LET r == get_subject_by_ico(ico, resp)
        IN  /\ Len(requests) + Len(r.sent) <= MaxRequests
            /\ arg' = ico
            /\ call' = [NoCall EXCEPT !.op = "get_subject_by_ico",
                                      !.ret = r.ret,
                                      !.failed = FailedTest(ico),
                                      !.raised = r.raised, !.sent = Len(r.sent)]
            /\ received' = IF r.sent = <<>> THEN NoResponse ELSE resp
            /\ requests' = requests \o r.sent
    /\ UNCHANGED <<pc, user_input>>

\* other code calls AresApiClient.get_subject_formal_description(ico)
GetSubjectFormalDescription ==
    /\ pc = "idle"
    /\ \E ico \in ClientArgs : \E resp \in ResponsesFor(ico) :
        LET r == get_subject_formal_description(ico, resp)
        IN  /\ Len(requests) + Len(r.sent) <= MaxRequests
            /\ arg' = ico
            /\ call' = [NoCall EXCEPT !.op = "get_subject_formal_description",
                                      !.ret = r.ret,
                                      !.failed = FailedTest(ico),
                                      !.raised = r.raised, !.sent = Len(r.sent)]
            /\ received' = IF r.sent = <<>> THEN NoResponse ELSE resp
            /\ requests' = requests \o r.sent
    /\ UNCHANGED <<pc, user_input>>

\* interact() is entered: the welcome is printed, user_input = True
InteractStart ==
    /\ pc = "idle"
    /\ pc' = "loop"
    /\ arg' = None
    /\ call' = [NoCall EXCEPT !.op = "interact", !.printed = "welcome"]
    /\ user_input' = BoolVal(TRUE)
    /\ UNCHANGED <<received, requests>>

\* one turn of `while user_input`: a line is read and stripped of
\* whitespace; a quitting phrase ends the loop, anything else is looked up
\* and the description or the failure message is printed.  An exception of
\* the lookup leaves interact().  The loop is left by `break` alone: after a
\* turn that did not break, user_input is not empty.
InteractStep ==
    /\ pc = "loop"
    /\ Truthy(user_input)
    /\ \E line \in ClientLines :
        LET stripped == RemoveWhitespace(line)
        IN  /\ arg' = StrVal(line)
            /\ user_input' = StrVal(stripped)
            /\ IF StrVal(lower(stripped)) \in quit_by
               THEN /\ pc' = "exited"
                    /\ call' = [NoCall EXCEPT !.op = "interact", !.printed = "goodbye"]
                    /\ UNCHANGED <<received, requests>>
               ELSE \E resp \in ResponsesFor(StrVal(stripped)) :
                    LET arg_ico == StrVal(stripped)
                        r == get_subject_formal_description(arg_ico, resp)
                    IN  /\ Len(requests) + Len(r.sent) <= MaxRequests
                        /\ call' = [NoCall EXCEPT
                                      !.op = "interact",
                                      !.ret = r.ret,
                                      !.failed = FailedTest(arg_ico),
                                      !.raised = r.raised, !.sent = Len(r.sent),
                                      !.printed = IF r.raised # "" THEN ""
                                                  ELSE IF Truthy(r.ret) THEN "result"
                                                  ELSE "failure"]
                        /\ received' = IF r.sent = <<>> THEN NoResponse ELSE resp
                        /\ requests' = requests \o r.sent
                        /\ pc' = IF r.raised # "" THEN "crashed" ELSE "loop"

Next ==
    \/ GetSubjectByIco
    \/ GetSubjectFormalDescription
    \/ InteractStart
    \/ InteractStep

Spec == Init /\ [][Next]_vars

----------------------------------------------------------------------------
(* Properties of validate_ico, under SpecValidate *)

\* every character of s is one of the ASCII digits 0-9
AsciiDigits(s) == \A i \in 1..Len(s) : s[i] \in 48..57

\* validate_ico(arg) was called on a string and has returned
ValidatedString == pc = "returned" /\ call.op = "validate_ico" /\ TypeOf(arg) = "str"

\* C1: a string s of 1 to 8 ASCII digits is returned as 8 characters:
\* 8 - len(s) zeros followed by s, and an 8-digit s is returned unchanged.
C1_DigitsArePaddedToEight ==
    (ValidatedString /\ Len(ValOf(arg)) \in 1..8 /\ AsciiDigits(ValOf(arg))) =>
        LET s == ValOf(arg)
            out == ValOf(call.ret)
        IN  /\ TypeOf(call.ret) = "str"
            /\ Len(out) = 8
            /\ \A i \in 1..(8 - Len(s)) : out[i] = 48
            /\ \A i \in 1..Len(s) : out[8 - Len(s) + i] = s[i]
            /\ (Len(s) = 8 => call.ret = arg)

\* "12345" was validated and gave "00012345"
C1_Witness ==
    /\ ValidatedString
    /\ arg = StrVal(<<49, 50, 51, 52, 53>>)
    /\ call.ret = StrVal(<<48, 48, 48, 49, 50, 51, 52, 53>>)

\* C2: a string holding a character outside the ASCII digits 0-9 is rejected
\* by the digit-only test (the second of the tests), and nothing is returned.
C2_NonAsciiDigitRejected ==
    (ValidatedString /\ ~AsciiDigits(ValOf(arg))) =>
        (call.ret = None /\ call.failed = 2)

\* C3, as stated: a string longer than 8 characters is rejected by the
\* maximum-length test (the third of the tests).
C3_LongRejectedAsTooLong ==
    (ValidatedString /\ Len(ValOf(arg)) > 8) =>
        (call.ret = None /\ call.failed = 3)

\* C3, amended: a string longer than 8 characters is never returned, cut or
\* not; it is rejected by the maximum-length test when all its characters
\* are digits for str.isdigit(), and by the digit-only test before it
\* otherwise.
C3_LongRejected ==
    (ValidatedString /\ Len(ValOf(arg)) > 8) =>
        /\ call.ret = None
        /\ call.failed \in {2, 3}
        /\ call.failed = 3 <=>
                \A i \in 1..Len(ValOf(arg)) : IsDigitChar(ValOf(arg)[i])

\* "123456789" was rejected by the maximum-length test
C3_Witness ==
    /\ ValidatedString
    /\ arg = StrVal(<<49, 50, 51, 52, 53, 54, 55, 56, 57>>)
    /\ call.ret = None
    /\ call.failed = 3

\* C4, as stated: the empty string passes every test and "00000000" is
\* returned.
C4_EmptyGivesZeros ==
    (ValidatedString /\ arg = StrVal(<<>>)) =>
        (call.failed = 0 /\ call.ret = StrVal(<<48, 48, 48, 48, 48, 48, 48, 48>>))

\* C4, amended: the empty string is rejected: str("") is falsy, so
\* validate_ico returns None after the first test, _force_string.
C4_EmptyRejected ==
    (ValidatedString /\ arg = StrVal(<<>>)) =>
        (call.ret = None /\ call.failed = 1)

\* the empty string was validated and nothing was returned
C4_Witness ==
    /\ ValidatedString
    /\ arg = StrVal(<<>>)
    /\ call.ret = None

----------------------------------------------------------------------------
(* Properties of the client, under Spec *)

\* the argument of the last lookup: the stripped line in interact()
LookupInput == IF call.op = "interact" THEN user_input ELSE arg

\* the last step was a lookup, from other code or from a turn of interact()
\* that did not quit
LookedUp ==
    \/ call.op \in {"get_subject_by_ico", "get_subject_formal_description"}
    \/ call.op = "interact" /\ call.printed \notin {"welcome", "goodbye"}

\* the last lookup got a record from the register: status 200 and a JSON object
GotRecord ==
    /\ LookedUp
    /\ received.raises = ""
    /\ received.status_code = 200
    /\ TypeOf(received.body) = "dict"

\* the record lacks one of obchodniJmeno, ico, sidlo, sidlo.textovaAdresa
LacksField(d) ==
    \/ "obchodniJmeno" \notin DOMAIN d
    \/ "ico" \notin DOMAIN d
    \/ "sidlo" \notin DOMAIN d
    \/ "textovaAdresa" \notin DOMAIN d["sidlo"]

\* C5: a lookup whose argument fails the validation returns None, raises
\* nothing and sends no request: every step that sends a request is a call
\* whose argument validate_ico accepts.
C5_NoRequestWithoutValidIco ==
    [][ /\ (LookedUp' /\ ~Truthy(validate_ico(LookupInput'))) =>
            (requests' = requests /\ call'.ret = None /\ call'.raised = ""
                /\ call'.sent = 0)
        /\ (requests' # requests) =>
            (LookedUp' /\ Truthy(validate_ico(LookupInput')))
      ]_vars

\* get_subject_formal_description("123456789") returned None without a request
C5_Witness ==
    /\ call.op = "get_subject_formal_description"
    /\ arg = StrVal(<<49, 50, 51, 52, 53, 54, 55, 56, 57>>)
    /\ call.failed = 3
    /\ call.ret = None
    /\ call.sent = 0

\* C6: when the record lacks an expected field, get_subject_formal_description
\* returns None and raises nothing.
C6_MissingFieldGivesNone ==
    (/\ call.op = "get_subject_formal_description"
     /\ GotRecord
     /\ LacksField(ValOf(received.body))) =>
        (call.ret = None /\ call.raised = "")

\* the phrases of the specification that end the loop, "0" among them
SentinelPhrases ==
    { <<>>,
      <<113>>,
      <<113, 117, 105, 116>>,
      <<113, 117, 105, 116, 40, 41>>,
      <<101, 120, 105, 116>>,
      <<101, 120, 105, 116, 40, 41>>,
      <<97, 98, 111, 114, 116>>,
      <<97, 98, 111, 114, 116, 40, 41>>,
      <<48>> }

\* C7: a line that, without its whitespace and in lower case, is a sentinel
\* ends the loop with no lookup and no request; any other line is looked up
\* and the loop prompts again.
C7_SentinelsEndTheLoop ==
    [][ pc = "loop" =>
            IF lower(RemoveWhitespace(ValOf(arg'))) \in SentinelPhrases
            THEN pc' = "exited" /\ ~LookedUp' /\ requests' = requests
            ELSE pc' = "loop" /\ LookedUp'
      ]_vars

\* C8: from a record with obchodniJmeno = n, ico = i and
\* sidlo.textovaAdresa = a the description is n + ", IČO " + i +
\* ", sídlem " + a, with the ico of the record and not the argument.
C8_DescriptionFormat ==
    (/\ call.op = "get_subject_formal_description"
     /\ GotRecord
     /\ ~LacksField(ValOf(received.body))) =>
        LET data == ValOf(received.body)
        IN  /\ call.raised = ""
            /\ call.ret = StrVal(data["obchodniJmeno"]
                                 \o <<44, 32, 73, 268, 79, 32>>
                                 \o data["ico"]
                                 \o <<44, 32, 115, 237, 100, 108, 101, 109, 32>>
                                 \o data["sidlo"]["textovaAdresa"])

\* for "70890021" the register echoed 00012345 and the description is
\* "Acme s.r.o., IČO 00012345, sídlem Praha 1"
C8_Witness ==
    /\ call.op = "get_subject_formal_description"
    /\ arg = StrVal(<<55, 48, 56, 57, 48, 48, 50, 49>>)
    /\ GotRecord
    /\ call.ret = StrVal(<<65, 99, 109, 101, 32, 115, 46, 114, 46, 111, 46,
                           44, 32, 73, 268, 79, 32,
                           48, 48, 48, 49, 50, 51, 52, 53,
                           44, 32, 115, 237, 100, 108, 101, 109, 32,
                           80, 114, 97, 104, 97, 32, 49>>)

\* C9: after a response whose status is not 200 both lookups return None,
\* raise nothing, and have sent exactly one request.
C9_NotFoundAfterOneRequest ==
    (/\ call.op \in {"get_subject_by_ico", "get_subject_formal_description"}
     /\ received.raises = ""
     /\ received.status_code \notin {0, 200}) =>
        (call.ret = None /\ call.raised = "" /\ call.sent = 1)

\* both lookups have met a 404 and a 500
C9_Witness ==
    /\ call.op = "get_subject_formal_description"
    /\ received.status_code = 404
    /\ received.body # NotJson
    /\ call.ret = None
    /\ call.sent = 1

\* C10: every URL requested is the base URL followed by exactly 8 ASCII digits.
C10_RequestsAreCanonical ==
    \A n \in 1..Len(requests) :
        LET url == requests[n]
            base == Len(ARES_REQUEST_URL)
        IN  /\ Len(url) = base + 8
            /\ SubSeq(url, 1, base) = ARES_REQUEST_URL
            /\ AsciiDigits(SubSeq(url, base + 1, Len(url)))

=============================================================================
